---- MODULE Spec2Model ----
(***************************************************************************)
(* The WebSocket relay of server.js: one transmitter streams binary audio  *)
(* chunks, the server forwards them to every listener.  The state is the   *)
(* module-level broadcast state of server.js (transmitterSocket,           *)
(* listeners, isBroadcasting, initSegment, global.__maktabBroadcast), the  *)
(* per-connection closure variable `role`, the readyState of every socket  *)
(* and what the server has sent on it.  Every handler of server.js is one  *)
(* action; the transmitter registration is two, because the handler        *)
(* suspends at `await verifyAdminToken` and other events run in between.   *)
(***************************************************************************)
EXTENDS Integers, Sequences, FiniteSets, TLC

\* ---- bounds of the model -------------------------------------------------
NConn == 2
MaxCtl == 3
MaxFrames == 2
\* the listener page: WebSockets it creates, server messages delivered to it
MaxSockets == 3
MaxMsgs == 3
\* the admin dashboard: WebSockets it creates, chunks its recorders produce
MaxDashSockets == 2
MaxChunks == 2
MaxPush == 3

Conns == 1..NConn
\* null of a socket reference (transmitterSocket), of the closure variable
\* `role`, and of an object reference (initSegment, the verified payload)
NoSocket == 0
NoRole == "null"
NULL == [null |-> TRUE]

\* ---- tokens and their verification ---------------------------------------
\* A token as jwtVerify sees it: is it a well-formed JWT, is its signature
\* made with JWT_SECRET, has it expired, and what role its payload carries.
Token(w, s, e, r) == [wellFormed |-> w, signed |-> s, expired |-> e, role |-> r]

\* An admin token, a correctly signed token of another role, an expired admin
\* token, an admin token signed with another secret, and a string that is no
\* JWT (as is '', which msg.token || '' gives for a missing token).
Tokens ==
    { Token(TRUE, TRUE, FALSE, "admin"),
      Token(TRUE, TRUE, FALSE, "user"),
      Token(TRUE, TRUE, TRUE, "admin"),
      Token(TRUE, FALSE, FALSE, "admin"),
      Token(FALSE, FALSE, FALSE, "admin") }

\* a jwtVerify that does not check the exp claim
jwtVerifyThrows_IgnoresExpiry(token) ==
    ~token.wellFormed \/ ~token.signed

\* jose's jwtVerify: returns the payload or throws
jwtVerifyThrows(token) ==
    ~token.wellFormed \/ ~token.signed \/ token.expired

\* verifyAdminToken without the check of payload.role
verifyAdminToken_AnyRole(token) ==
    IF jwtVerifyThrows(token) THEN NULL ELSE [role |-> token.role]

verifyAdminToken(token) ==
    IF jwtVerifyThrows(token) THEN NULL
    ELSE IF token.role = "admin" THEN [role |-> token.role]
    ELSE NULL

\* ---- messages the server sends -------------------------------------------
Ready == [type |-> "ready"]
BroadcastStart == [type |-> "broadcast-start"]
BroadcastEnd == [type |-> "broadcast-end"]
ErrorMsg(m) == [type |-> "error", message |-> m]
ListenerCount(n) == [type |-> "listener-count", count |-> n]
BinaryMsg(f) == [type |-> "binary", data |-> f]

VARIABLES
    rs,                 \* readyState of each socket: NONE (not accepted yet), OPEN, CLOSING, CLOSED
    role,               \* the closure variable `role` of each connection
    pending,            \* results of verifyAdminToken the handler is awaiting, per connection
    transmitterSocket,
    listeners,
    isBroadcasting,
    initSegment,
    maktabBroadcast,    \* global.__maktabBroadcast
    sent,               \* what the server has sent on each socket, in order
    nctl,               \* control frames handled so far that made the server send or change state
    nframes,            \* binary frames accepted so far
    last                \* the handler that ran last, its connection, the socket it evicted;
                        \* op "exit" once an uncaught rejection of a handler has ended the process

vars == <<rs, role, pending, transmitterSocket, listeners, isBroadcasting,
          initSegment, maktabBroadcast, sent, nctl, nframes, last>>

shared == <<transmitterSocket, listeners, isBroadcasting, initSegment, maktabBroadcast>>

\* ---- ws primitives ---------------------------------------------------------
\* ws.send(data): written to the socket only when it is OPEN, dropped otherwise
Send(s, r, c, m) ==
    IF r[c] = "OPEN" THEN [s EXCEPT ![c] = Append(@, m)] ELSE s

\* ws.close(): starts the closing handshake of an OPEN socket
CloseSocket(r, c) ==
    IF r[c] = "OPEN" THEN [r EXCEPT ![c] = "CLOSING"] ELSE r

\* the server process is alive: no handler runs after it has exited
Running == last.op # "exit"

\* a socket still delivers inbound frames until its 'close' event
Receiving(c) == Running /\ rs[c] \in {"OPEN", "CLOSING"}

\* ---- helpers of server.js --------------------------------------------------
\* broadcastJSON whose loop is aborted by a listener that is not open
broadcastJSON_AbortOnClosed(s, r, L, msg) ==
    IF \E c \in L : r[c] # "OPEN"
    THEN s
    ELSE [c \in Conns |-> IF c \in L THEN Append(s[c], msg) ELSE s[c]]

broadcastJSON(s, r, L, msg) ==
    [c \in Conns |-> IF c \in L /\ r[c] = "OPEN" THEN Append(s[c], msg) ELSE s[c]]

\* broadcastBinary that puts the frame ahead of what is already queued
broadcastBinary_Unordered(s, r, L, data) ==
    [c \in Conns |-> IF c \in L /\ r[c] = "OPEN" THEN <<BinaryMsg(data)>> \o s[c] ELSE s[c]]

broadcastBinary(s, r, L, data) ==
    [c \in Conns |-> IF c \in L /\ r[c] = "OPEN" THEN Append(s[c], BinaryMsg(data)) ELSE s[c]]

\* updateGlobalState that republishes the old listener count
updateGlobalState_StaleCount(live, L) ==
    [isLive |-> live, listenerCount |-> maktabBroadcast.listenerCount]

\* updateGlobalState that counts registrations instead of members
updateGlobalState_CountsRegistrations(live, L) ==
    [isLive |-> live, listenerCount |-> maktabBroadcast.listenerCount + 1]

updateGlobalState(live, L) ==
    [isLive |-> live, listenerCount |-> Cardinality(L)]

\* sendListenerCount that announces the count to the listeners
sendListenerCount_ToListeners(s, r, tx, L) ==
    [c \in Conns |-> IF c \in L /\ r[c] = "OPEN"
                     THEN Append(s[c], ListenerCount(Cardinality(L)))
                     ELSE s[c]]

sendListenerCount(s, r, tx, L) ==
    IF tx # NoSocket /\ r[tx] = "OPEN"
    THEN [s EXCEPT ![tx] = Append(@, ListenerCount(Cardinality(L)))]
    ELSE s

Event(op, c) == [op |-> op, conn |-> c, evicted |-> NoSocket]

\* ---- initial state ---------------------------------------------------------
Init ==
    /\ rs = [c \in Conns |-> "NONE"]
    /\ role = [c \in Conns |-> NoRole]
    /\ pending = [c \in Conns |-> [ok |-> 0, bad |-> 0]]
    /\ transmitterSocket = NoSocket
    /\ listeners = {}
    /\ isBroadcasting = FALSE
    /\ initSegment = NULL
    /\ maktabBroadcast = [isLive |-> FALSE, listenerCount |-> 0]
    /\ sent = [c \in Conns |-> <<>>]
    /\ nctl = 0
    /\ nframes = 0
    /\ last = Event("start", NoSocket)

\* ---- wss.on('connection') --------------------------------------------------
\* Sockets are numbered in the order they are accepted.
Connection(c) ==
    /\ Running
    /\ rs[c] = "NONE"
    /\ \A d \in Conns : d < c => rs[d] # "NONE"
    /\ rs' = [rs EXCEPT ![c] = "OPEN"]
    /\ role' = [role EXCEPT ![c] = NoRole]
    /\ last' = Event("connection", c)
    /\ UNCHANGED <<pending, shared, sent, nctl, nframes>>

\* ---- ws.on('message'), binary branch -------------------------------------
\* `if (!initSegment) initSegment = Buffer.from(data)`, replaced by a version
\* that caches every frame
cacheInitSegment_EveryFrame(init, data) == data

cacheInitSegment(init, data) ==
    IF init = NULL THEN data ELSE init

\* the binary branch without `if (role !== 'transmitter') return`
OnBinary_NoRoleCheck(c) ==
    /\ Receiving(c)
    /\ nframes < MaxFrames
    /\ nframes' = nframes + 1
    /\ LET data == [src |-> c, seq |-> nframes + 1] IN
       /\ initSegment' = cacheInitSegment(initSegment, data)
       /\ sent' = broadcastBinary(sent, rs, listeners, data)
    /\ last' = Event("binary", c)
    /\ UNCHANGED <<rs, role, pending, transmitterSocket, listeners, isBroadcasting,
                   maktabBroadcast, nctl>>

\* The frame is identified by its sender and its arrival number.
OnBinary(c) ==
    /\ Receiving(c)
    /\ IF role[c] # "transmitter"
       THEN /\ last' = Event("binary-ignored", c)
            /\ UNCHANGED <<initSegment, sent, nframes>>
       ELSE /\ nframes < MaxFrames
            /\ nframes' = nframes + 1
            /\ LET data == [src |-> c, seq |-> nframes + 1] IN
               /\ initSegment' = cacheInitSegment(initSegment, data)
               /\ sent' = broadcastBinary(sent, rs, listeners, data)
            /\ last' = Event("binary", c)
    /\ UNCHANGED <<rs, role, pending, transmitterSocket, listeners, isBroadcasting,
                   maktabBroadcast, nctl>>

\* ---- ws.on('message'), text frame that JSON.parse rejects ------------------
\* a parse error that also closes the connection
OnInvalidJSON_Closes(c) ==
    /\ Receiving(c)
    /\ nctl < MaxCtl
    /\ nctl' = nctl + 1
    /\ sent' = Send(sent, rs, c, ErrorMsg("Invalid JSON"))
    /\ rs' = CloseSocket(rs, c)
    /\ last' = Event("invalid-json", c)
    /\ UNCHANGED <<role, pending, shared, nframes>>

OnInvalidJSON(c) ==
    /\ Receiving(c)
    /\ nctl < MaxCtl
    /\ nctl' = nctl + 1
    /\ sent' = Send(sent, rs, c, ErrorMsg("Invalid JSON"))
    /\ last' = Event("invalid-json", c)
    /\ UNCHANGED <<rs, role, pending, shared, nframes>>

\* ---- ws.on('message'), { type: 'transmitter', token } ----------------------
\* Up to the await: the verification is started and the handler suspends.
OnTransmitterToken(c, token) ==
    /\ Receiving(c)
    /\ nctl < MaxCtl
    /\ nctl' = nctl + 1
    /\ pending' = [pending EXCEPT ![c] =
                        IF verifyAdminToken(token) # NULL
                        THEN [@ EXCEPT !.ok = @ + 1]
                        ELSE [@ EXCEPT !.bad = @ + 1]]
    /\ last' = Event("transmitter", c)
    /\ UNCHANGED <<rs, role, shared, sent, nframes>>

OnTransmitter(c) == \E token \in Tokens : OnTransmitterToken(c, token)

\* After the await, payload is null: error, close, return.
Unauthorized(c) ==
    /\ Running
    /\ pending[c].bad > 0
    /\ pending' = [pending EXCEPT ![c].bad = @ - 1]
    /\ sent' = Send(sent, rs, c, ErrorMsg("Unauthorized"))
    /\ rs' = CloseSocket(rs, c)
    /\ last' = Event("unauthorized", c)
    /\ UNCHANGED <<role, shared, nctl, nframes>>

\* a registration that never closes the previous transmitter
Evicted_Nobody(r, tx) == NoSocket

\* the socket `if (transmitterSocket && transmitterSocket.readyState === OPEN)` closes
Evicted(r, tx) ==
    IF tx # NoSocket /\ r[tx] = "OPEN" THEN tx ELSE NoSocket

\* After the await, payload is an admin payload: evict, register, announce.
Registered(c) ==
    /\ Running
    /\ pending[c].ok > 0
    /\ pending' = [pending EXCEPT ![c].ok = @ - 1]
    /\ LET old == Evicted(rs, transmitterSocket)
           r1 == IF old # NoSocket THEN CloseSocket(rs, old) ELSE rs
           s1 == Send(sent, r1, c, Ready)
           s2 == broadcastJSON(s1, r1, listeners, BroadcastStart)
       IN /\ rs' = r1
          /\ role' = [role EXCEPT ![c] = "transmitter"]
          /\ transmitterSocket' = c
          /\ isBroadcasting' = TRUE
          /\ initSegment' = NULL
          /\ sent' = s2
          /\ maktabBroadcast' = updateGlobalState(TRUE, listeners)
          /\ last' = [op |-> "registered", conn |-> c, evicted |-> old]
    /\ UNCHANGED <<listeners, nctl, nframes>>

\* ---- ws.on('message'), { type: 'listener' } --------------------------------
\* the init segment sent ahead of broadcast-start
sendCurrentState_InitFirst(s, r, c, live, init) ==
    IF live
    THEN LET s1 == IF init # NULL THEN Send(s, r, c, BinaryMsg(init)) ELSE s
         IN Send(s1, r, c, BroadcastStart)
    ELSE Send(s, r, c, BroadcastEnd)

\* "Tell this listener the current state"
sendCurrentState(s, r, c, live, init) ==
    IF live
    THEN LET s1 == Send(s, r, c, BroadcastStart)
         IN IF init # NULL THEN Send(s1, r, c, BinaryMsg(init)) ELSE s1
    ELSE Send(s, r, c, BroadcastEnd)

OnListener(c) ==
    /\ Receiving(c)
    /\ nctl < MaxCtl
    /\ nctl' = nctl + 1
    /\ LET L == listeners \cup {c}
           s1 == sendListenerCount(sent, rs, transmitterSocket, L)
           s2 == sendCurrentState(s1, rs, c, isBroadcasting, initSegment)
       IN /\ role' = [role EXCEPT ![c] = "listener"]
          /\ listeners' = L
          /\ maktabBroadcast' = updateGlobalState(isBroadcasting, L)
          /\ sent' = s2
    /\ last' = Event("listener", c)
    /\ UNCHANGED <<rs, pending, transmitterSocket, isBroadcasting, initSegment, nframes>>

\* ---- ws.on('message'), { type: 'stop' } ------------------------------------
OnStop(c) ==
    /\ Receiving(c)
    /\ IF role[c] = "transmitter"
       THEN /\ nctl < MaxCtl
            /\ nctl' = nctl + 1
            /\ isBroadcasting' = FALSE
            /\ transmitterSocket' = NoSocket
            /\ initSegment' = NULL
            /\ sent' = broadcastJSON(sent, rs, listeners, BroadcastEnd)
            /\ maktabBroadcast' = updateGlobalState(FALSE, listeners)
            /\ rs' = CloseSocket(rs, c)
            /\ last' = Event("stop", c)
       ELSE /\ last' = Event("stop-ignored", c)
            /\ UNCHANGED <<isBroadcasting, transmitterSocket, initSegment, sent,
                           maktabBroadcast, rs, nctl>>
    /\ UNCHANGED <<role, pending, listeners, nframes>>

\* ---- ws.on('message'), any other parseable control frame -------------------
OnOther(c) ==
    /\ Receiving(c)
    /\ UNCHANGED vars

\* ---- ws.on('message'), the text frame `null` ---------------------------------
\* JSON.parse accepts it and msg is null, so `msg.type` throws a TypeError
\* inside the async handler and its promise is rejected with nobody to catch
\* it.  What follows depends on how the process treats unhandled rejections:
\* it logs them and goes on (a handler is installed, or --unhandled-rejections
\* is warn), or it raises them as an uncaught exception and exits (the default
\* of Node.js).
OnNullPayload(c) ==
    /\ Receiving(c)
    /\ nctl < MaxCtl
    /\ \/ UNCHANGED vars
       \/ /\ nctl' = nctl + 1
          /\ last' = Event("exit", c)
          /\ UNCHANGED <<rs, role, pending, shared, sent, nframes>>

\* ---- ws.on('close') --------------------------------------------------------
\* Fires once per socket, after a closing handshake or a transport error
\* (ws.on('error') only logs; ws emits 'close' after it).
OnClose(c) ==
    /\ Receiving(c)
    /\ rs' = [rs EXCEPT ![c] = "CLOSED"]
    /\ LET r1 == [rs EXCEPT ![c] = "CLOSED"] IN
       IF role[c] = "transmitter"
       THEN /\ isBroadcasting' = FALSE
            /\ transmitterSocket' = NoSocket
            /\ initSegment' = NULL
            /\ sent' = broadcastJSON(sent, r1, listeners, BroadcastEnd)
            /\ maktabBroadcast' = updateGlobalState(FALSE, listeners)
            /\ UNCHANGED listeners
       ELSE IF role[c] = "listener"
       THEN /\ listeners' = listeners \ {c}
            /\ maktabBroadcast' = updateGlobalState(isBroadcasting, listeners \ {c})
            /\ sent' = sendListenerCount(sent, r1, transmitterSocket, listeners \ {c})
            /\ UNCHANGED <<isBroadcasting, transmitterSocket, initSegment>>
       ELSE UNCHANGED <<shared, sent>>
    /\ last' = Event("close", c)
    /\ UNCHANGED <<role, pending, nctl, nframes>>

\* ==== The listener page (pages/index.js, component Home) ======================
\* One mounted instance of the page: the WebSockets it has created, its refs
\* and React state, and the timers it has set.  The server is its environment:
\* it opens, fails and closes the sockets and delivers messages on them.
VARIABLES
    mounted,            \* "before" the mount effect ran, "mounted", "unmounted"
    socks,              \* readyState of every WebSocket the page created, in creation order
    registered,         \* the sockets on which onopen has sent { type: 'listener' }
    wsRef,              \* wsRef.current: index in socks, 0 for null
    retryTimers,        \* pending setTimeout(connectWs, RETRY_MS), named by the socket whose onclose set it
    retryRef,           \* retryRef.current: the timer id stored last, 0 for none
    hasInteracted,      \* hasInteracted.current
    isBroadcast,
    azanState,
    streamerRef,        \* streamerRef.current is an AudioStreamer
    initPending,        \* pending timers of initStreamer (100 ms)
    playPending,        \* pending timers of startPlaying (150 ms)
    pushed,             \* the chunks given to AudioStreamer.push, in order
    startedOn,          \* socket on which broadcast-start last started auto-play, 0 after broadcast-end
    nmsgs,              \* server messages delivered to the page so far
    pageLast            \* the handler of the page that ran last and its socket

pageVars == <<mounted, socks, registered, wsRef, retryTimers, retryRef, hasInteracted,
              isBroadcast, azanState, streamerRef, initPending, playPending, pushed,
              startedOn, nmsgs, pageLast>>

PageEvent(op, s) == [op |-> op, sock |-> s]

PageInit ==
    /\ mounted = "before"
    /\ socks = <<>>
    /\ registered = {}
    /\ wsRef = 0
    /\ retryTimers = {}
    /\ retryRef = 0
    /\ hasInteracted = FALSE
    /\ isBroadcast = FALSE
    /\ azanState = "idle"
    /\ streamerRef = FALSE
    /\ initPending = 0
    /\ playPending = 0
    /\ pushed = <<>>
    /\ startedOn = 0
    /\ nmsgs = 0
    /\ pageLast = PageEvent("start", 0)

\* ==== The admin dashboard (pages/admin/dashboard.js, component Dashboard) =====
\* The broadcast controls of one dashboard: its React state bcastState, its
\* refs, the WebSockets startBroadcast has created and the MediaRecorder of
\* each.  The visitor, the microphone and the server are its environment.
VARIABLES
    bcastState,         \* idle, connecting, live (stopping is overwritten in the same handler run)
    startClosure,       \* the bcastState of the render whose startBroadcast is running or ran last
    mediaPending,       \* startBroadcast is awaiting getUserMedia
    dsocks,             \* per WebSocket, in creation order: readyState, the bcastState its
                        \* handlers closed over, registration sent, ready received, chunks
                        \* whose arrayBuffer() is awaited, chunks transmitted
    dwsRef,             \* wsRef.current: index in dsocks, 0 for null
    streamRef,          \* streamRef.current holds a microphone stream
    recorderRef,        \* recorderRef.current: the socket its recorder sends on, 0 for null
    recording,          \* the sockets whose recorder is recording
    finalData,          \* the sockets whose recorder was stopped and still fires its
                        \* last dataavailable
    nchunks,            \* dataavailable events so far
    dashLast            \* the handler of the dashboard that ran last and its socket

dashVars == <<bcastState, startClosure, mediaPending, dsocks, dwsRef, streamRef,
              recorderRef, recording, finalData, nchunks, dashLast>>

DashInit ==
    /\ bcastState = "idle"
    /\ startClosure = "idle"
    /\ mediaPending = FALSE
    /\ dsocks = <<>>
    /\ dwsRef = 0
    /\ streamRef = FALSE
    /\ recorderRef = 0
    /\ recording = {}
    /\ finalData = {}
    /\ nchunks = 0
    /\ dashLast = PageEvent("start", 0)

\* ==== The MediaSource player (pages/index.js, class AudioStreamer) ==========
\* One AudioStreamer from its constructor to destroy().  The page that pushes
\* the chunks, the MediaSource and its SourceBuffer are its environment.
VARIABLES
    ms,                 \* this.ms: "null", or the readyState of the MediaSource
    sb,                 \* this.sb is a SourceBuffer
    queue,              \* this.queue: the chunks pushed and not yet taken, oldest first
    busy,               \* this.busy
    updating,           \* the operation of the SourceBuffer whose updateend is due:
                        \* "none", "append" or "remove"
    appended,           \* the chunks appendBuffer has accepted, in the order of the calls
    npush,              \* the calls of push so far; chunk k is the one of call k
    appendTimers,             \* pending setTimeout(() => this._appendNext(), 50)
    streamLast          \* the method or handler of the streamer that ran last

streamerVars == <<ms, sb, queue, busy, updating, appended, npush, appendTimers, streamLast>>

\* the fields as the constructor leaves them
StreamerInit ==
    /\ ms = "null"
    /\ sb = FALSE
    /\ queue = <<>>
    /\ busy = FALSE
    /\ updating = "none"
    /\ appended = <<>>
    /\ npush = 0
    /\ appendTimers = 0
    /\ streamLast = "constructor"

clientVars == <<pageVars, dashVars, streamerVars>>

\* everything but the listener page, but the dashboard, but the player
exceptPage == <<vars, dashVars, streamerVars>>
exceptDash == <<vars, pageVars, streamerVars>>
exceptStreamer == <<vars, pageVars, dashVars>>

\* ==== Specification of the relay ==============================================
Next ==
    \E c \in Conns :
        \/ Connection(c) /\ UNCHANGED clientVars
        \/ OnBinary(c) /\ UNCHANGED clientVars
        \/ OnInvalidJSON(c) /\ UNCHANGED clientVars
        \/ OnTransmitter(c) /\ UNCHANGED clientVars
        \/ Unauthorized(c) /\ UNCHANGED clientVars
        \/ Registered(c) /\ UNCHANGED clientVars
        \/ OnListener(c) /\ UNCHANGED clientVars
        \/ OnStop(c) /\ UNCHANGED clientVars
        \/ OnOther(c) /\ UNCHANGED clientVars
        \/ OnNullPayload(c) /\ UNCHANGED clientVars
        \/ OnClose(c) /\ UNCHANGED clientVars

RelayInit == Init /\ PageInit /\ DashInit /\ StreamerInit

Spec == RelayInit /\ [][Next]_<<vars, clientVars>>

\* ==== Actions of the listener page ============================================
Socks == 1..Len(socks)

\* `wsRef.current?.readyState <= 1` is false: no socket, or one that is closing or closed
Connectable == wsRef = 0 \/ socks[wsRef] \notin {"CONNECTING", "OPEN"}

\* connectWs(), called with the timers that are pending at the call
connectWs(timers) ==
    IF ~Connectable
    THEN /\ retryTimers' = timers
         /\ UNCHANGED <<socks, wsRef>>
    ELSE /\ Len(socks) < MaxSockets
         /\ retryTimers' = timers \ {retryRef}
         /\ socks' = Append(socks, "CONNECTING")
         /\ wsRef' = Len(socks) + 1

\* the audio element is in the document while the page is mounted
AudioAvailable == mounted = "mounted"

\* startPlaying(): initStreamer() destroys the old streamer and sets the timer
\* that will create the new one, then the timer that will start playback is set
startPlaying ==
    /\ IF AudioAvailable
       THEN streamerRef' = FALSE /\ initPending' = initPending + 1
       ELSE UNCHANGED <<streamerRef, initPending>>
    /\ playPending' = playPending + 1
    /\ UNCHANGED azanState

stopPlaying ==
    /\ streamerRef' = FALSE
    /\ azanState' = "idle"
    /\ UNCHANGED <<initPending, playPending>>

\* ---- mount effect and its cleanup -------------------------------------------
Mount ==
    /\ mounted = "before"
    /\ mounted' = "mounted"
    /\ connectWs(retryTimers)
    /\ pageLast' = PageEvent("mount", 0)
    /\ UNCHANGED <<registered, retryRef, hasInteracted, isBroadcast, azanState,
                   streamerRef, initPending, playPending, pushed, startedOn, nmsgs>>

Unmount ==
    /\ mounted = "mounted"
    /\ mounted' = "unmounted"
    /\ retryTimers' = retryTimers \ {retryRef}
    /\ socks' = IF wsRef # 0 /\ socks[wsRef] \in {"CONNECTING", "OPEN"}
                THEN [socks EXCEPT ![wsRef] = "CLOSING"] ELSE socks
    /\ stopPlaying
    /\ pageLast' = PageEvent("unmount", wsRef)
    /\ UNCHANGED <<registered, wsRef, retryRef, hasInteracted, isBroadcast, pushed,
                   startedOn, nmsgs>>

\* ---- events of a WebSocket -----------------------------------------------------
\* ws.onopen
WsOpen(s) ==
    /\ s \in Socks
    /\ socks[s] = "CONNECTING"
    /\ socks' = [socks EXCEPT ![s] = "OPEN"]
    /\ registered' = registered \cup {s}
    /\ pageLast' = PageEvent("open", s)
    /\ UNCHANGED <<mounted, wsRef, retryTimers, retryRef, hasInteracted, isBroadcast,
                   azanState, streamerRef, initPending, playPending, pushed, startedOn, nmsgs>>

\* an onclose that schedules no reconnect
WsClose_NoRetry(s) ==
    /\ s \in Socks
    /\ socks[s] # "CLOSED"
    /\ socks' = [socks EXCEPT ![s] = "CLOSED"]
    /\ pageLast' = PageEvent("close", s)
    /\ UNCHANGED <<mounted, registered, wsRef, retryTimers, retryRef, hasInteracted,
                   isBroadcast, azanState, streamerRef, initPending, playPending, pushed,
                   startedOn, nmsgs>>

\* ws.onclose, after the server or the page closed the socket or the connection
\* failed (ws.onerror runs just before it and its ws.close() changes nothing)
WsClose(s) ==
    /\ s \in Socks
    /\ socks[s] # "CLOSED"
    /\ socks' = [socks EXCEPT ![s] = "CLOSED"]
    /\ retryTimers' = retryTimers \cup {s}
    /\ retryRef' = s
    /\ pageLast' = PageEvent("close", s)
    /\ UNCHANGED <<mounted, registered, wsRef, hasInteracted, isBroadcast, azanState,
                   streamerRef, initPending, playPending, pushed, startedOn, nmsgs>>

\* the timer set by ws.onclose fires: connectWs()
RetryTimer(t) ==
    /\ t \in retryTimers
    /\ connectWs(retryTimers \ {t})
    /\ pageLast' = PageEvent("retry", t)
    /\ UNCHANGED <<mounted, registered, retryRef, hasInteracted, isBroadcast, azanState,
                   streamerRef, initPending, playPending, pushed, startedOn, nmsgs>>

\* ---- ws.onmessage ------------------------------------------------------------------
\* A message event is fired only on an OPEN socket, and the server sends
\* broadcast messages only to a registered listener.
Delivering(s) ==
    /\ s \in Socks
    /\ socks[s] = "OPEN"
    /\ s \in registered
    /\ nmsgs < MaxMsgs

OnBroadcastStart(s) ==
    /\ Delivering(s)
    /\ nmsgs' = nmsgs + 1
    /\ isBroadcast' = TRUE
    /\ IF hasInteracted
       THEN startPlaying /\ startedOn' = s
       ELSE /\ azanState' = "idle"
            /\ startedOn' = 0
            /\ UNCHANGED <<streamerRef, initPending, playPending>>
    /\ pageLast' = PageEvent("broadcast-start", s)
    /\ UNCHANGED <<mounted, socks, registered, wsRef, retryTimers, retryRef, hasInteracted,
                   pushed>>

OnBroadcastEnd(s) ==
    /\ Delivering(s)
    /\ nmsgs' = nmsgs + 1
    /\ isBroadcast' = FALSE
    /\ stopPlaying
    /\ startedOn' = 0
    /\ pageLast' = PageEvent("broadcast-end", s)
    /\ UNCHANGED <<mounted, socks, registered, wsRef, retryTimers, retryRef, hasInteracted,
                   pushed>>

\* a binary frame: pushed to the streamer if there is one, dropped otherwise
OnChunk(s) ==
    /\ Delivering(s)
    /\ nmsgs' = nmsgs + 1
    /\ IF streamerRef
       THEN pushed' = Append(pushed, nmsgs + 1) /\ pageLast' = PageEvent("chunk", s)
       ELSE pushed' = pushed /\ pageLast' = PageEvent("chunk-dropped", s)
    /\ UNCHANGED <<mounted, socks, registered, wsRef, retryTimers, retryRef, hasInteracted,
                   isBroadcast, azanState, streamerRef, initPending, playPending, startedOn>>

\* ---- the visitor ---------------------------------------------------------------------
\* the first click or touch anywhere on the page
Interact ==
    /\ mounted = "mounted"
    /\ ~hasInteracted
    /\ hasInteracted' = TRUE
    /\ pageLast' = PageEvent("interact", 0)
    /\ UNCHANGED <<mounted, socks, registered, wsRef, retryTimers, retryRef, isBroadcast,
                   azanState, streamerRef, initPending, playPending, pushed, startedOn, nmsgs>>

\* handleListenClick: the banner is rendered while isBroadcast && azanState !== 'live'
ListenClick ==
    /\ mounted = "mounted"
    /\ isBroadcast
    /\ azanState # "live"
    /\ playPending < MaxMsgs
    /\ hasInteracted' = TRUE
    /\ startPlaying
    /\ pageLast' = PageEvent("listen-click", 0)
    /\ UNCHANGED <<mounted, socks, registered, wsRef, retryTimers, retryRef, isBroadcast,
                   pushed, startedOn, nmsgs>>

\* ---- timers of initStreamer and startPlaying ------------------------------------------
\* after 100 ms: new AudioStreamer(), init(audioRef.current); init fails when
\* the audio element is gone
InitTimer ==
    /\ initPending > 0
    /\ initPending' = initPending - 1
    /\ streamerRef' = IF AudioAvailable THEN TRUE ELSE streamerRef
    /\ pageLast' = PageEvent("init-timer", 0)
    /\ UNCHANGED <<mounted, socks, registered, wsRef, retryTimers, retryRef, hasInteracted,
                   isBroadcast, azanState, playPending, pushed, startedOn, nmsgs>>

\* after 150 ms, that is after the 100 ms timer of the same call
PlayTimer ==
    /\ playPending > 0
    /\ playPending > initPending
    /\ playPending' = playPending - 1
    /\ azanState' = IF streamerRef THEN "live" ELSE "error"
    /\ pageLast' = PageEvent("play-timer", 0)
    /\ UNCHANGED <<mounted, socks, registered, wsRef, retryTimers, retryRef, hasInteracted,
                   isBroadcast, streamerRef, initPending, pushed, startedOn, nmsgs>>

PageNext ==
    \/ Mount /\ UNCHANGED exceptPage
    \/ Unmount /\ UNCHANGED exceptPage
    \/ \E s \in 1..MaxSockets :
          \/ WsOpen(s) /\ UNCHANGED exceptPage
          \/ WsClose(s) /\ UNCHANGED exceptPage
          \/ RetryTimer(s) /\ UNCHANGED exceptPage
          \/ OnBroadcastStart(s) /\ UNCHANGED exceptPage
          \/ OnBroadcastEnd(s) /\ UNCHANGED exceptPage
          \/ OnChunk(s) /\ UNCHANGED exceptPage
    \/ Interact /\ UNCHANGED exceptPage
    \/ ListenClick /\ UNCHANGED exceptPage
    \/ InitTimer /\ UNCHANGED exceptPage
    \/ PlayTimer /\ UNCHANGED exceptPage

PageSpec == RelayInit /\ [][PageNext]_<<vars, clientVars>>

\* A timer that has been set and is not cleared fires.
PageLiveSpec ==
    /\ PageSpec
    /\ \A t \in 1..MaxSockets : WF_<<vars, clientVars>>(RetryTimer(t) /\ UNCHANGED exceptPage)

\* ==== Actions of the admin dashboard ==========================================
DSocks == 1..Len(dsocks)

DashSocket(state, closure) ==
    [rs |-> state, closure |-> closure, sentToken |-> FALSE, ready |-> FALSE,
     converting |-> 0, wire |-> 0]

\* stopBroadcast(): stop the recorder and the microphone, send stop and close
\* the socket if it is open, clear the refs, end in state idle
stopBroadcast(ds) ==
    /\ recording' = recording \ {recorderRef}
    /\ finalData' = finalData \cup (recording \cap {recorderRef})
    /\ recorderRef' = 0
    /\ streamRef' = FALSE
    /\ dsocks' = IF dwsRef # 0 /\ ds[dwsRef].rs = "OPEN"
                 THEN [ds EXCEPT ![dwsRef].rs = "CLOSING"] ELSE ds
    /\ dwsRef' = 0
    /\ bcastState' = "idle"

\* ---- startBroadcast --------------------------------------------------------------
\* the Start button, rendered while bcastState === 'idle': up to the await
StartClick ==
    /\ bcastState = "idle"
    /\ ~mediaPending
    /\ Len(dsocks) < MaxDashSockets
    /\ startClosure' = bcastState
    /\ bcastState' = "connecting"
    /\ mediaPending' = TRUE
    /\ dashLast' = PageEvent("start-click", 0)
    /\ UNCHANGED <<dsocks, dwsRef, streamRef, recorderRef, recording, finalData, nchunks>>

\* getUserMedia rejects
MediaDenied ==
    /\ mediaPending
    /\ mediaPending' = FALSE
    /\ bcastState' = "idle"
    /\ dashLast' = PageEvent("media-denied", 0)
    /\ UNCHANGED <<startClosure, dsocks, dwsRef, streamRef, recorderRef, recording, finalData,
                   nchunks>>

\* getUserMedia resolves: the stream is kept and the WebSocket is created, its
\* handlers closing over the bcastState of the render that started
MediaGranted ==
    /\ mediaPending
    /\ mediaPending' = FALSE
    /\ streamRef' = TRUE
    /\ dsocks' = Append(dsocks, DashSocket("CONNECTING", startClosure))
    /\ dwsRef' = Len(dsocks) + 1
    /\ dashLast' = PageEvent("media-granted", Len(dsocks) + 1)
    /\ UNCHANGED <<bcastState, startClosure, recorderRef, recording, finalData, nchunks>>

\* ---- events of a WebSocket of the dashboard -----------------------------------------
\* ws.onopen: authenticate as transmitter
DashOpen(s) ==
    /\ s \in DSocks
    /\ dsocks[s].rs = "CONNECTING"
    /\ dsocks' = [dsocks EXCEPT ![s].rs = "OPEN", ![s].sentToken = TRUE]
    /\ dashLast' = PageEvent("open", s)
    /\ UNCHANGED <<bcastState, startClosure, mediaPending, dwsRef, streamRef, recorderRef,
                   recording, finalData, nchunks>>

\* an onopen that starts the recorder without waiting for ready
DashReady_OnOpen(s) ==
    /\ s \in DSocks
    /\ dsocks[s].rs = "OPEN"
    /\ ~dsocks[s].ready
    /\ s \notin recording
    /\ recorderRef' = s
    /\ recording' = recording \cup {s}
    /\ bcastState' = "live"
    /\ dashLast' = PageEvent("ready", s)
    /\ UNCHANGED <<startClosure, mediaPending, dsocks, dwsRef, streamRef, finalData, nchunks>>

\* ws.onmessage, { type: 'ready' }, which the server sends once for the
\* registration: create and start the MediaRecorder, state live; in a browser
\* without MIME_TYPE, or whose MediaRecorder throws, stopBroadcast
DashReady(s) ==
    /\ s \in DSocks
    /\ dsocks[s].rs = "OPEN"
    /\ dsocks[s].sentToken
    /\ ~dsocks[s].ready
    /\ \/ /\ dsocks' = [dsocks EXCEPT ![s].ready = TRUE]
          /\ recorderRef' = s
          /\ recording' = recording \cup {s}
          /\ bcastState' = "live"
          /\ dashLast' = PageEvent("ready", s)
          /\ UNCHANGED <<dwsRef, streamRef, finalData>>
       \/ /\ stopBroadcast([dsocks EXCEPT ![s].ready = TRUE])
          /\ dashLast' = PageEvent("ready-unsupported", s)
    /\ UNCHANGED <<startClosure, mediaPending, nchunks>>

\* ws.onmessage, { type: 'error' }, which the server sends instead of ready
DashErrorMsg(s) ==
    /\ s \in DSocks
    /\ dsocks[s].rs = "OPEN"
    /\ dsocks[s].sentToken
    /\ ~dsocks[s].ready
    /\ stopBroadcast(dsocks)
    /\ dashLast' = PageEvent("error-msg", s)
    /\ UNCHANGED <<startClosure, mediaPending, nchunks>>

\* the connection fails: the socket is closed, ws.onerror runs stopBroadcast,
\* then ws.onclose runs
DashFail(s) ==
    /\ s \in DSocks
    /\ dsocks[s].rs \in {"CONNECTING", "OPEN"}
    /\ stopBroadcast([dsocks EXCEPT ![s].rs = "CLOSED"])
    /\ dashLast' = PageEvent("fail", s)
    /\ UNCHANGED <<startClosure, mediaPending, nchunks>>

\* ws.onclose after a closing handshake, started by the server or by the page:
\* `if (bcastState === 'live') stopBroadcast()` on the bcastState it closed over
DashClose(s) ==
    /\ s \in DSocks
    /\ dsocks[s].rs \in {"OPEN", "CLOSING"}
    /\ LET ds == [dsocks EXCEPT ![s].rs = "CLOSED"] IN
       IF dsocks[s].closure = "live"
       THEN stopBroadcast(ds)
       ELSE /\ dsocks' = ds
            /\ UNCHANGED <<bcastState, dwsRef, streamRef, recorderRef, recording, finalData>>
    /\ dashLast' = PageEvent("close", s)
    /\ UNCHANGED <<startClosure, mediaPending, nchunks>>

\* the Stop button, rendered while bcastState === 'live'
StopClick ==
    /\ bcastState = "live"
    /\ stopBroadcast(dsocks)
    /\ dashLast' = PageEvent("stop-click", 0)
    /\ UNCHANGED <<startClosure, mediaPending, nchunks>>

\* ---- the MediaRecorder of socket s ----------------------------------------------------
\* recorder.ondataavailable up to its await, every timeslice while recording
\* and once more after stop(): the chunk is taken only if the socket is open
DataAvailable(s) ==
    /\ s \in recording \cup finalData
    /\ nchunks < MaxChunks
    /\ nchunks' = nchunks + 1
    /\ finalData' = finalData \ {s}
    /\ dsocks' = IF dsocks[s].rs = "OPEN"
                 THEN [dsocks EXCEPT ![s].converting = @ + 1] ELSE dsocks
    /\ dashLast' = PageEvent("dataavailable", s)
    /\ UNCHANGED <<bcastState, startClosure, mediaPending, dwsRef, streamRef, recorderRef,
                   recording>>

\* ev.data.arrayBuffer() resolves: ws.send(buf), which a socket that is no
\* longer open discards
BufferReady(s) ==
    /\ s \in DSocks
    /\ dsocks[s].converting > 0
    /\ dsocks' = [dsocks EXCEPT ![s].converting = @ - 1,
                                ![s].wire = IF dsocks[s].rs = "OPEN" THEN @ + 1 ELSE @]
    /\ dashLast' = PageEvent("send", s)
    /\ UNCHANGED <<bcastState, startClosure, mediaPending, dwsRef, streamRef, recorderRef,
                   recording, finalData, nchunks>>

\* recorder.onerror
RecorderError(s) ==
    /\ s \in recording
    /\ stopBroadcast(dsocks)
    /\ dashLast' = PageEvent("recorder-error", s)
    /\ UNCHANGED <<startClosure, mediaPending, nchunks>>

DashNext ==
    \/ StartClick /\ UNCHANGED exceptDash
    \/ MediaDenied /\ UNCHANGED exceptDash
    \/ MediaGranted /\ UNCHANGED exceptDash
    \/ StopClick /\ UNCHANGED exceptDash
    \/ \E s \in 1..MaxDashSockets :
          \/ DashOpen(s) /\ UNCHANGED exceptDash
          \/ DashReady(s) /\ UNCHANGED exceptDash
          \/ DashErrorMsg(s) /\ UNCHANGED exceptDash
          \/ DashFail(s) /\ UNCHANGED exceptDash
          \/ DashClose(s) /\ UNCHANGED exceptDash
          \/ DataAvailable(s) /\ UNCHANGED exceptDash
          \/ BufferReady(s) /\ UNCHANGED exceptDash
          \/ RecorderError(s) /\ UNCHANGED exceptDash

DashSpec == RelayInit /\ [][DashNext]_<<vars, clientVars>>

\* ==== Actions of the MediaSource player =======================================
\* an _appendNext() that takes the newest chunk
appendNext_Newest(q, b, u, t) ==
    IF b \/ q = <<>> \/ ~sb \/ u # "none" \/ ms # "open"
    THEN /\ queue' = q
         /\ busy' = b
         /\ updating' = u
         /\ appendTimers' = t
         /\ UNCHANGED appended
    ELSE /\ queue' = SubSeq(q, 1, Len(q) - 1)
         /\ busy' = TRUE
         /\ updating' = "append"
         /\ appended' = Append(appended, q[Len(q)])
         /\ appendTimers' = t

\* _appendNext() with queue q, busy b, SourceBuffer operation u and t pending
\* timers: nothing
\* unless idle with a chunk, a SourceBuffer and an open MediaSource; else take
\* the oldest chunk and call appendBuffer, which accepts it or throws
\* QuotaExceededError (then _evict, which may start a remove) or
\* InvalidStateError (then a timer if chunks are left) or another error
appendNext(q, b, u, t) ==
    IF b \/ q = <<>> \/ ~sb \/ u # "none" \/ ms # "open"
    THEN /\ queue' = q
         /\ busy' = b
         /\ updating' = u
         /\ appendTimers' = t
         /\ UNCHANGED appended
    ELSE /\ queue' = Tail(q)
         /\ \/ /\ busy' = TRUE
               /\ updating' = "append"
               /\ appended' = Append(appended, Head(q))
               /\ appendTimers' = t
            \/ /\ busy' = FALSE
               /\ updating' \in {"none", "remove"}
               /\ appendTimers' = t
               /\ UNCHANGED appended
            \/ /\ busy' = FALSE
               /\ updating' = "none"
               /\ appendTimers' = IF Tail(q) # <<>> THEN t + 1 ELSE t
               /\ UNCHANGED appended

\* init(audioEl) in a browser with MediaSource: a new MediaSource is attached
\* to the audio element
init ==
    /\ streamLast = "constructor"
    /\ ms' = "closed"
    /\ streamLast' = "init"
    /\ UNCHANGED <<sb, queue, busy, updating, appended, npush, appendTimers>>

\* the sourceopen listener (once): addSourceBuffer, which may throw
sourceopen ==
    /\ ms = "closed"
    /\ ms' = "open"
    /\ sb' \in BOOLEAN
    /\ streamLast' = "sourceopen"
    /\ UNCHANGED <<queue, busy, updating, appended, npush, appendTimers>>

\* push(arrayBuffer), by the page that holds the streamer
push ==
    /\ streamLast # "destroy" /\ ms # "null"
    /\ npush < MaxPush
    /\ npush' = npush + 1
    /\ appendNext(Append(queue, npush + 1), busy, updating, appendTimers)
    /\ streamLast' = "push"
    /\ UNCHANGED <<ms, sb>>

\* the updateend listener, after an append or a remove has finished
updateend ==
    /\ updating # "none"
    /\ appendNext(queue, FALSE, "none", appendTimers)
    /\ streamLast' = "updateend"
    /\ UNCHANGED <<ms, sb, npush>>

\* an append fails to decode: the MediaSource is ended before updateend fires
AppendError ==
    /\ updating = "append"
    /\ ms = "open"
    /\ ms' = "ended"
    /\ updating' = "none"
    /\ busy' = FALSE
    /\ streamLast' = "append-error"
    /\ UNCHANGED <<sb, queue, appended, npush, appendTimers>>

\* the timer set after an InvalidStateError
AppendTimer ==
    /\ appendTimers > 0
    /\ appendNext(queue, busy, updating, appendTimers - 1)
    /\ streamLast' = "timer"
    /\ UNCHANGED <<ms, sb, npush>>

\* destroy(); the updateend of an operation it interrupts still fires
destroy ==
    /\ ms # "null"
    /\ queue' = <<>>
    /\ sb' = FALSE
    /\ ms' = "null"
    /\ streamLast' = "destroy"
    /\ UNCHANGED <<busy, updating, appended, npush, appendTimers>>

StreamerNext ==
    \/ init /\ UNCHANGED exceptStreamer
    \/ sourceopen /\ UNCHANGED exceptStreamer
    \/ push /\ UNCHANGED exceptStreamer
    \/ updateend /\ UNCHANGED exceptStreamer
    \/ AppendError /\ UNCHANGED exceptStreamer
    \/ AppendTimer /\ UNCHANGED exceptStreamer
    \/ destroy /\ UNCHANGED exceptStreamer

StreamerSpec == RelayInit /\ [][StreamerNext]_<<vars, clientVars>>

\* ==== Properties ==============================================================

broadcastState == <<transmitterSocket, isBroadcasting, initSegment, maktabBroadcast>>

\* another connection than c holds the transmitter slot
OtherRegistered(c) == transmitterSocket \notin {NoSocket, c}

\* C1: the 'close' event of a connection whose role is transmitter while
\* another connection is the registered transmitter leaves the transmitter
\* slot, the live flag, the init segment and the snapshot unchanged and sends
\* nothing to any listener.
C1_StaleCloseIsNoOp ==
    [][\A c \in Conns :
          (OnClose(c) /\ role[c] = "transmitter" /\ OtherRegistered(c))
              => /\ UNCHANGED broadcastState
                 /\ \A l \in listeners : sent'[l] = sent[l]]_vars

\* C2: the transmitter slot holds at most one connection, and when b's
\* registration completes while a different connection is the registered, open
\* transmitter, then right after it that connection has been closed by the
\* server and b is the registered transmitter.
C2_SecondTransmitterEvictsFirst ==
    /\ [](transmitterSocket \in Conns \cup {NoSocket})
    /\ [][\A b \in Conns :
            (Registered(b) /\ OtherRegistered(b) /\ rs[transmitterSocket] = "OPEN")
                => /\ rs'[transmitterSocket] = "CLOSING"
                   /\ transmitterSocket' = b]_vars

C2_Witness ==
    /\ last.op = "registered"
    /\ last.evicted \notin {NoSocket, last.conn}
    /\ rs[last.evicted] = "CLOSING"
    /\ rs[last.conn] = "OPEN"
    /\ transmitterSocket = last.conn

\* C3: a binary frame from a connection that was the transmitter, received
\* while another connection is the registered transmitter, is neither
\* forwarded to listeners nor cached as the init segment.
C3_EvictedFramesDropped ==
    [][\A a \in Conns :
          (OnBinary(a) /\ OtherRegistered(a)) => UNCHANGED <<initSegment, sent>>]_vars

\* C4: the init segment is non-null only if the live flag is true.
C4_InitSegmentOnlyWhileLive ==
    initSegment # NULL => isBroadcasting

\* C5: the published snapshot always equals {isLive: live flag, listenerCount:
\* size of the listener set}, and every listener-count message carries the size
\* of the listener set at the moment it is sent.
SnapshotCurrent ==
    maktabBroadcast = [isLive |-> isBroadcasting, listenerCount |-> Cardinality(listeners)]

CountsCurrent ==
    \A c \in Conns : \A i \in (Len(sent[c]) + 1)..Len(sent'[c]) :
        sent'[c][i].type = "listener-count"
            => sent'[c][i].count = Cardinality(listeners')

C5_SnapshotAndCountsCurrent ==
    /\ []SnapshotCurrent
    /\ [][CountsCurrent]_vars

C5_Witness ==
    /\ last.op = "listener"
    /\ last.conn \in listeners
    /\ maktabBroadcast.listenerCount = Cardinality(listeners)
    /\ transmitterSocket # NoSocket
    /\ transmitterSocket # last.conn
    /\ Len(sent[transmitterSocket]) > 0
    /\ sent[transmitterSocket][Len(sent[transmitterSocket])]
           = ListenerCount(Cardinality(listeners))

\* C6: no connection is at the same time the registered transmitter and a
\* member of the listener set.
C6_AtMostOneRole ==
    transmitterSocket \notin listeners

\* C7: a listener that registers on an open socket while the broadcast is live
\* is sent broadcast-start and then the cached init segment (if there is one),
\* with no binary frame before them; every frame accepted afterwards is
\* appended, in arrival order, to what every open listener has been sent.
JoinBurst == <<BroadcastStart>> \o (IF initSegment # NULL THEN <<BinaryMsg(initSegment)>> ELSE <<>>)

JoinWhileLiveInOrder(c) ==
    LET new == SubSeq(sent'[c], Len(sent[c]) + 1, Len(sent'[c]))
        k == Len(new) - Len(JoinBurst)
    IN /\ k >= 0
       /\ SubSeq(new, k + 1, Len(new)) = JoinBurst
       /\ \A i \in 1..k : new[i].type = "listener-count"

C7_JoinWhileLiveOrder ==
    [][/\ \A c \in Conns :
            (OnListener(c) /\ isBroadcasting /\ rs[c] = "OPEN") => JoinWhileLiveInOrder(c)
       /\ \A t \in Conns :
            (OnBinary(t) /\ role[t] = "transmitter")
                => \A l \in listeners :
                      rs[l] = "OPEN"
                          => sent'[l] = Append(sent[l], BinaryMsg([src |-> t, seq |-> nframes + 1]))]_vars

C7_Witness ==
    /\ last.op = "listener"
    /\ isBroadcasting
    /\ initSegment # NULL
    /\ rs[last.conn] = "OPEN"
    /\ sent[last.conn] = <<BroadcastStart, BinaryMsg(initSegment)>>

\* C8: a connection that has been sent broadcast-end (as a listener that
\* registers while idle is) is sent no binary frame until a later
\* broadcast-start has been sent to it.
C8_NoBinaryAfterEnd ==
    \A c \in Conns : \A i, k \in 1..Len(sent[c]) :
        (i < k /\ sent[c][i] = BroadcastEnd /\ sent[c][k].type = "binary")
            => \E j \in (i + 1)..(k - 1) : sent[c][j] = BroadcastStart

\* C9: a transmitter registration whose token does not verify as an admin
\* token is rejected: the verification yields null, and when the handler
\* resumes the connection is sent error 'Unauthorized' (if it is still open),
\* is closed by the server, keeps its role, and the live flag, transmitter
\* slot, init segment and snapshot are unchanged.
IsAdminToken(token) ==
    token.wellFormed /\ token.signed /\ ~token.expired /\ token.role = "admin"

C9_UnauthorizedRejected ==
    [][\A c \in Conns :
          /\ \A token \in Tokens :
                (OnTransmitterToken(c, token) /\ ~IsAdminToken(token))
                    => /\ pending'[c].bad = pending[c].bad + 1
                       /\ pending'[c].ok = pending[c].ok
                       /\ UNCHANGED <<broadcastState, role, rs, sent>>
          /\ Unauthorized(c)
                => /\ rs[c] = "OPEN" => sent'[c] = Append(sent[c], ErrorMsg("Unauthorized"))
                   /\ rs'[c] \in {"CLOSING", "CLOSED"}
                   /\ role'[c] = role[c]
                   /\ \A d \in Conns \ {c} : sent'[d] = sent[d] /\ rs'[d] = rs[d]
                   /\ UNCHANGED <<broadcastState, listeners>>]_vars

C9_Witness ==
    /\ last.op = "unauthorized"
    /\ rs[last.conn] = "CLOSING"
    /\ role[last.conn] # "transmitter"
    /\ sent[last.conn] = <<ErrorMsg("Unauthorized")>>
    /\ ~isBroadcasting

\* C10: a stop from a connection that is not the registered transmitter, and
\* the close of a connection that never registered a role, leave the live
\* flag, transmitter slot, init segment, listener set and snapshot unchanged
\* and send nothing to any listener.
C10_StopAndCloseWithoutRoleAreNoOps ==
    [][\A c \in Conns :
          ((OnStop(c) /\ transmitterSocket # c) \/ (OnClose(c) /\ role[c] = NoRole))
              => /\ UNCHANGED <<broadcastState, listeners>>
                 /\ \A l \in listeners : sent'[l] = sent[l]]_vars

Newest(c) == sent[c][Len(sent[c])]

\* the step sent exactly the message m on socket l
SentOne(l, m) == sent'[l] = Append(sent[l], m)

\* C11: when the registered transmitter sends stop while live, then right
\* after it the live flag is false, the transmitter slot and the init segment
\* are null, the snapshot has isLive false, every open listener has been sent
\* broadcast-end and the server has closed the transmitter's connection.
C11_StopEndsBroadcast ==
    [][\A c \in Conns :
          (OnStop(c) /\ transmitterSocket = c /\ isBroadcasting)
              => /\ ~isBroadcasting'
                 /\ transmitterSocket' = NoSocket
                 /\ initSegment' = NULL
                 /\ ~maktabBroadcast'.isLive
                 /\ \A l \in listeners : rs[l] = "OPEN" => SentOne(l, BroadcastEnd)
                 /\ rs'[c] # "OPEN"]_vars

\* C12: when the connection of the registered transmitter closes while the
\* broadcast is live, the broadcast becomes idle: the live flag is false, the
\* transmitter slot and the init segment are null, the snapshot has isLive
\* false and every open listener has been sent broadcast-end.
C12_TransmitterCloseEndsBroadcast ==
    [][\A c \in Conns :
          (OnClose(c) /\ transmitterSocket = c /\ isBroadcasting)
              => /\ ~isBroadcasting'
                 /\ transmitterSocket' = NoSocket
                 /\ initSegment' = NULL
                 /\ ~maktabBroadcast'.isLive
                 /\ \A l \in listeners : rs'[l] = "OPEN" => SentOne(l, BroadcastEnd)]_vars

\* C13: a successful registration on an open socket, from idle or from live,
\* makes that connection the registered transmitter with role transmitter,
\* sets the live flag, resets the init segment, sends ready to that
\* connection and broadcast-start to every open listener, and publishes a
\* snapshot with isLive true.
C13_RegistrationGoesLive ==
    [][\A c \in Conns :
          (Registered(c) /\ rs[c] = "OPEN")
              => /\ role'[c] = "transmitter"
                 /\ transmitterSocket' = c
                 /\ isBroadcasting'
                 /\ initSegment' = NULL
                 /\ maktabBroadcast'.isLive
                 /\ \E i \in (Len(sent[c]) + 1)..Len(sent'[c]) : sent'[c][i] = Ready
                 /\ \A l \in listeners :
                       rs'[l] = "OPEN" => Newest(l)' = BroadcastStart]_vars

\* C14: the inbound units of one connection are processed strictly in arrival
\* order: no later unit of a connection is handled while the registration of
\* an earlier unit is still awaiting its token verification, so a binary frame
\* or a stop that follows a valid registration is handled with role
\* transmitter.
AwaitingVerification(c) == pending[c].ok + pending[c].bad > 0

C14_PerConnectionOrder ==
    [][\A c \in Conns :
          /\ (OnBinary(c) \/ OnStop(c) \/ OnListener(c) \/ OnInvalidJSON(c)
                 \/ OnTransmitter(c)) => ~AwaitingVerification(c)
          /\ ((OnBinary(c) \/ OnStop(c)) /\ pending[c].ok > 0)
                 => role[c] = "transmitter"]_vars

\* C15: a binary frame from a connection whose role is not transmitter is
\* ignored: nothing is sent to anyone, no socket is closed, and the init
\* segment and the rest of the relay state are unchanged.
C15_ForeignBinaryIgnored ==
    [][\A c \in Conns :
          (OnBinary(c) /\ role[c] # "transmitter")
              => UNCHANGED <<shared, sent, rs, role, pending>>]_vars

C15_Witness ==
    /\ last.op = "binary-ignored"
    /\ role[last.conn] = "listener"
    /\ rs[last.conn] = "OPEN"
    /\ isBroadcasting
    /\ initSegment = NULL
    /\ \A c \in Conns : \A i \in 1..Len(sent[c]) : sent[c][i].type # "binary"

\* C16: within one live session the init segment is the first binary frame
\* accepted since the broadcast went live: a registration starts the session
\* with no init segment, the first accepted frame becomes the init segment,
\* and while the session lasts no later frame replaces it.
SameSession == isBroadcasting /\ isBroadcasting' /\ ~(\E c \in Conns : Registered(c))

C16_InitSegmentIsFirstFrame ==
    [][/\ (\E c \in Conns : Registered(c)) => initSegment' = NULL
       /\ \A t \in Conns :
             (OnBinary(t) /\ role[t] = "transmitter" /\ isBroadcasting /\ initSegment = NULL)
                 => initSegment' = [src |-> t, seq |-> nframes + 1]
       /\ (SameSession /\ initSegment # NULL) => initSegment' = initSegment]_vars

C16_Witness ==
    /\ last.op = "binary"
    /\ isBroadcasting
    /\ initSegment # NULL
    /\ initSegment.seq < nframes
    /\ transmitterSocket = last.conn

\* C17: every listener is sent the frames the relay accepted in the order it
\* accepted them: of two frames forwarded to a listener the one accepted first
\* comes first (a frame that directly follows broadcast-start may be the
\* replay of the init segment to a joining listener).
C17_FramesInArrivalOrder ==
    \A c \in Conns : \A i, j \in 1..Len(sent[c]) :
        (/\ i < j
         /\ sent[c][i].type = "binary"
         /\ sent[c][j].type = "binary"
         /\ sent[c][j - 1] # BroadcastStart)
            => sent[c][i].data.seq < sent[c][j].data.seq

C17_Witness ==
    \E l \in listeners : \E i \in 1..Len(sent[l]) :
        /\ i + 1 = Len(sent[l])
        /\ sent[l][i].type = "binary"
        /\ sent[l][i + 1].type = "binary"
        /\ sent[l][i].data.seq + 1 = sent[l][i + 1].data.seq
        /\ last.op = "binary"

\* C18: a broadcast of a control message or of a binary frame reaches every
\* member of the listener set whose socket is open when it is sent, whatever
\* the state of the other members, and nothing is written to the members that
\* are not open.
DeliveredToOpen(r, m) ==
    \A l \in listeners :
        IF r[l] = "OPEN" THEN Newest(l)' = m /\ Len(sent'[l]) > Len(sent[l])
        ELSE sent'[l] = sent[l]

C18_BroadcastReachesEveryOpenListener ==
    [][\A c \in Conns :
          /\ (OnBinary(c) /\ role[c] = "transmitter")
                => DeliveredToOpen(rs, BinaryMsg([src |-> c, seq |-> nframes + 1]))
          /\ Registered(c) => DeliveredToOpen(rs', BroadcastStart)
          /\ (OnStop(c) /\ role[c] = "transmitter") => DeliveredToOpen(rs, BroadcastEnd)
          /\ (OnClose(c) /\ role[c] = "transmitter") => DeliveredToOpen(rs', BroadcastEnd)]_vars

C18_Witness ==
    /\ last.op \in {"registered", "stop", "close"}
    /\ role[last.conn] = "transmitter"
    /\ \E l1, l2 \in listeners :
          /\ rs[l1] \in {"CLOSING", "CLOSED"}
          /\ rs[l2] = "OPEN"
          /\ Len(sent[l2]) > 0
          /\ Newest(l2) = (IF last.op = "registered" THEN BroadcastStart ELSE BroadcastEnd)

\* C19: while a transmitter is registered and its socket is open, every
\* listener join and every listener leave sends a listener-count message with
\* the new size of the listener set to that transmitter, and to no other
\* connection.
CountSentTo(t) ==
    /\ \E i \in (Len(sent[t]) + 1)..Len(sent'[t]) :
          sent'[t][i] = ListenerCount(Cardinality(listeners'))
    /\ \A d \in Conns \ {t} : \A i \in (Len(sent[d]) + 1)..Len(sent'[d]) :
          sent'[d][i].type # "listener-count"

C20_ClosedConnectionUnregistered ==
    \A c \in Conns :
        rs[c] = "CLOSED" => c \notin listeners /\ transmitterSocket # c

\* C21: a connection gets role transmitter, and has its binary frames
\* forwarded or cached, only through a registration whose token verified with
\* role 'admin': a token that is missing, malformed, expired, wrongly signed
\* or of another role verifies to null and starts no registration, only a
\* completed registration sets role transmitter, and only a connection with
\* role transmitter has a frame accepted.
C21_TransmitterOnlyByAdminToken ==
    [][\A c \in Conns :
          /\ \A token \in Tokens :
                (OnTransmitterToken(c, token) /\ ~IsAdminToken(token))
                    => verifyAdminToken(token) = NULL /\ pending'[c].ok = pending[c].ok
          /\ pending'[c].ok > pending[c].ok
                => \E token \in Tokens : IsAdminToken(token) /\ OnTransmitterToken(c, token)
          /\ (role'[c] = "transmitter" /\ role[c] # "transmitter")
                => Registered(c) /\ pending[c].ok > 0
          /\ (OnBinary(c) /\ (sent' # sent \/ initSegment' # initSegment \/ nframes' # nframes))
                => role[c] = "transmitter"]_vars

C21_Witness ==
    /\ last.op = "binary"
    /\ role[last.conn] = "transmitter"
    /\ \E c \in Conns \ {last.conn} :
          /\ role[c] # "transmitter"
          /\ sent[c] = <<ErrorMsg("Unauthorized")>>
    /\ initSegment # NULL
    /\ initSegment.src = last.conn

\* C22: a text frame that JSON.parse rejects is answered with error 'Invalid
\* JSON' on the sender's socket only; no socket changes its readyState, the
\* sender's role is unchanged, and the live flag, transmitter slot, init
\* segment, listener set and snapshot are unchanged.
C22_InvalidJSONAnswered ==
    [][\A c \in Conns :
          OnInvalidJSON(c)
              => /\ rs[c] = "OPEN" => SentOne(c, ErrorMsg("Invalid JSON"))
                 /\ \A d \in Conns \ {c} : sent'[d] = sent[d]
                 /\ UNCHANGED <<rs, role, pending, shared>>]_vars

C22_Witness ==
    /\ last.op = "invalid-json"
    /\ rs[last.conn] = "OPEN"
    /\ role[last.conn] = "listener"
    /\ isBroadcasting
    /\ Len(sent[last.conn]) > 1
    /\ Newest(last.conn) = ErrorMsg("Invalid JSON")

\* C23: a parseable control frame whose type is none of transmitter, listener
\* and stop (a payload with no type included), and a stop from a connection
\* whose role is not transmitter, is silently ignored: nothing is sent, no
\* socket changes its readyState, the relay state is unchanged and the relay
\* goes on serving.
C23_UnrecognizedControlIgnored ==
    [][\A c \in Conns :
          (OnOther(c) \/ OnNullPayload(c) \/ (OnStop(c) /\ role[c] # "transmitter"))
              => /\ UNCHANGED <<shared, sent, rs, role, pending>>
                 /\ Running']_vars

\* C24: the close of a listener connection removes only that connection from
\* the listener set: the live flag, the transmitter slot, the init segment and
\* the membership of every other listener are unchanged, and nothing is sent
\* to any other listener.
C24_ListenerCloseIsLocal ==
    [][\A c \in Conns :
          (OnClose(c) /\ role[c] = "listener")
              => /\ listeners' = listeners \ {c}
                 /\ UNCHANGED <<isBroadcasting, transmitterSocket, initSegment>>
                 /\ \A l \in listeners \ {c} : sent'[l] = sent[l]]_vars

\* C25: listener registration is idempotent on the registry: when a member of
\* the listener set sends 'listener' again, the listener set and the published
\* listenerCount stay what they were, with the connection in the set once.
C25_ListenerRegistrationIdempotent ==
    [][\A c \in Conns :
          (OnListener(c) /\ c \in listeners)
              => /\ listeners' = listeners
                 /\ maktabBroadcast'.listenerCount = maktabBroadcast.listenerCount
                 /\ maktabBroadcast'.listenerCount = Cardinality(listeners)]_vars

C25_Witness ==
    /\ last.op = "listener"
    /\ sent[last.conn] = <<BroadcastEnd, BroadcastEnd>>
    /\ listeners = {last.conn}
    /\ maktabBroadcast.listenerCount = 1

\* C26: the close event of a transmitter connection that has already stopped
\* the broadcast, with the relay idle, has no observable effect: the live
\* flag, the transmitter slot, the listener set and the snapshot are unchanged
\* and nothing is sent, so no listener is sent a second broadcast-end.
C26_CloseAfterStopIsSilent ==
    [][\A c \in Conns :
          (OnClose(c) /\ role[c] = "transmitter" /\ ~isBroadcasting)
              => UNCHANGED <<isBroadcasting, transmitterSocket, listeners,
                             maktabBroadcast, sent>>]_vars

\* C27: the live flag is true if and only if the transmitter slot holds a
\* connection that is not closed and whose role is transmitter.
C27_LiveIffOpenTransmitter ==
    isBroadcasting <=> /\ transmitterSocket # NoSocket
                       /\ rs[transmitterSocket] # "CLOSED"
                       /\ role[transmitterSocket] = "transmitter"

\* C28: when a connection has closed while its transmitter registration was
\* awaiting the token verification, the completion of the verification has no
\* effect: the relay does not become live, the closed connection is not put
\* in the transmitter slot, no other socket is closed and nothing is sent.
C28_RegistrationAfterCloseIsNoOp ==
    [][\A c \in Conns :
          (Registered(c) /\ rs[c] = "CLOSED") => UNCHANGED <<shared, rs, sent, role>>]_vars

\* C29: the stream of messages sent on a connection is well formed: every
\* binary frame in it is preceded by a broadcast-start with no broadcast-end
\* between that broadcast-start and the frame.
C29_StreamWellFormed ==
    \A c \in Conns : \A k \in 1..Len(sent[c]) :
        sent[c][k].type = "binary"
            => \E i \in 1..(k - 1) :
                  /\ sent[c][i] = BroadcastStart
                  /\ \A j \in (i + 1)..(k - 1) : sent[c][j] # BroadcastEnd

\* C30: a registered transmitter whose second registration completes on the
\* same, open connection stays the registered transmitter with its connection
\* open and the broadcast live; a registration closes no socket but that of a
\* previous transmitter different from the registering connection.
C30_ReRegistrationKeepsConnection ==
    [][\A c \in Conns :
          /\ (Registered(c) /\ transmitterSocket = c /\ rs[c] = "OPEN")
                => rs'[c] = "OPEN" /\ transmitterSocket' = c /\ isBroadcasting'
          /\ Registered(c) => rs'[c] = rs[c]]_vars

\* C31: on the listener page, once broadcast-start has been received on a
\* connection by a visitor who had already interacted with the page, every
\* binary frame received afterwards on that connection (until broadcast-end)
\* is pushed to the audio streamer.
C31_ChunksAfterStartArePushed ==
    [][\A s \in 1..MaxSockets :
          (OnChunk(s) /\ startedOn = s) => pushed' = Append(pushed, nmsgs + 1)]_pageVars

\* C32: on the mounted listener page, after a WebSocket has closed (a
\* connection error ends in the same close event) a new WebSocket is
\* eventually created unless the page unmounts first; a socket that opens
\* sends the listener registration; and at no time is more than one of the
\* page's WebSockets open or connecting.
LiveSockets == {s \in Socks : socks[s] \in {"CONNECTING", "OPEN"}}

C32_ReconnectsWithOneSocket ==
    /\ [](Cardinality(LiveSockets) <= 1)
    /\ [][\A s \in 1..MaxSockets : WsOpen(s) => s \in registered']_pageVars
    /\ \A s \in 1..(MaxSockets - 1) :
          (mounted = "mounted" /\ Len(socks) = s /\ socks[s] = "CLOSED")
              ~> (Len(socks) > s \/ mounted = "unmounted")

C32_Witness ==
    /\ mounted = "mounted"
    /\ pageLast = PageEvent("open", 2)
    /\ socks = <<"CLOSED", "OPEN">>
    /\ registered = {1, 2}
    /\ retryTimers = {}

\* C33: after the listener page has unmounted no further WebSocket is created.
C33_NoConnectAfterUnmount ==
    [][mounted = "unmounted" => Len(socks') = Len(socks)]_pageVars

\* C34: the dashboard transmits an audio chunk on a WebSocket only after it
\* has received ready on that WebSocket and only while that WebSocket is open;
\* no chunk is even taken for sending before ready
C34_ChunksOnlyAfterReadyWhileOpen ==
    [][\A s \in DSocks :
          /\ dsocks'[s].wire > dsocks[s].wire => dsocks[s].ready /\ dsocks[s].rs = "OPEN"
          /\ dsocks'[s].converting > dsocks[s].converting => dsocks[s].ready]_dashVars

\* a chunk of a live broadcast has just been transmitted
C34_Witness ==
    /\ dashLast.op = "send"
    /\ dsocks[dashLast.sock].wire > 0
    /\ bcastState = "live"

\* C35: when the transmitter connection of a live dashboard is closed by the
\* server, the dashboard runs stopBroadcast: state idle, recorder stopped
C35_ServerCloseStopsBroadcast ==
    [][\A s \in DSocks :
          (DashClose(s) /\ bcastState = "live" /\ dwsRef = s /\ dsocks[s].rs = "OPEN")
              => bcastState' = "idle" /\ recording' = {}]_dashVars

\* C36: the AudioStreamer calls appendBuffer with the chunks in the order of
\* their push and with each chunk at most once, and it starts an append only
\* when no operation of the SourceBuffer is in flight: busy is set while an
\* append runs, and only the updateend handler (or a throwing appendBuffer)
\* clears it
C36_AppendsInOrderOneAtATime ==
    /\ [](\A i, j \in 1..Len(appended) : i < j => appended[i] < appended[j])
    /\ [](updating = "append" => busy)
    /\ [][appended' # appended =>
             /\ Len(appended') = Len(appended) + 1
             /\ busy' /\ updating' = "append"
             /\ (updating = "none" /\ ~busy) \/ streamLast' = "updateend"]_streamerVars

\* the updateend of one append has started the append of the next chunk,
\* which was pushed while the streamer was busy
C36_Witness ==
    /\ streamLast = "updateend"
    /\ updating = "append"
    /\ Len(appended) >= 2
    /\ npush > Len(appended)

TypeOK ==
    /\ rs \in [Conns -> {"NONE", "OPEN", "CLOSING", "CLOSED"}]
    /\ role \in [Conns -> {NoRole, "transmitter", "listener"}]
    /\ transmitterSocket \in Conns \cup {NoSocket}
    /\ listeners \subseteq Conns
    /\ isBroadcasting \in BOOLEAN
    /\ nctl \in 0..MaxCtl
    /\ nframes \in 0..MaxFrames
====
